---- MODULE Spec2Model ----
(***************************************************************************)
(* The hero/comment REST router of src/src/routers/hero.js over the hero   *)
(* model of src/src/models/hero.js.  The state is the document store (the  *)
(* hero and comment collections), the process, and the requests in flight; *)
(* every handler is cut at the points where it waits for the store.        *)
(***************************************************************************)
EXTENDS Integers, Sequences, FiniteSets, TLC

VARIABLES heroes, comments, strictQuery, alive, req

vars == <<heroes, comments, strictQuery, alive, req>>

(***************************************************************************)
(* Bounds of the model.                                                    *)
(***************************************************************************)
MaxStore == 2      \* heroes in the store of Spec
MaxListed == 12    \* heroes in the store of QuerySpec and PagesSpec
MaxReq == 2        \* requests in flight at once
MaxComments == 2   \* comments ever saved
MaxPage == 3       \* largest ?page= value sent
MaxStat == 2       \* largest powerstat / threshold value

DEFAULT_HEROES_PER_PAGE == 10
DEFAULT_COMMENTS_PER_PAGE == 3

(***************************************************************************)
(* Strings are sequences of one-character strings.  Chars lists the        *)
(* characters in use in code-unit order, which is the order the store's    *)
(* default (binary) collation sorts by: digits, upper case, lower case.    *)
(***************************************************************************)
Chars ==
  << "-", "1", "A", "B", "C", "D", "E", "F", "G", "H", "I",
     "a", "b", "c", "d", "e", "f", "g", "l", "n", "o", "s", "t", "x" >>

Code(c) == CHOOSE i \in 1..Len(Chars) : Chars[i] = c

\* String.prototype.toLowerCase on one character
LowerChar(c) ==
  CASE c = "A" -> "a" [] c = "B" -> "b" [] c = "C" -> "c" [] c = "D" -> "d"
    [] c = "E" -> "e" [] c = "F" -> "f" [] c = "G" -> "g" [] c = "H" -> "h"
    [] c = "I" -> "i" [] OTHER -> c

toLowerCase(s) == [i \in 1..Len(s) |-> LowerChar(s[i])]

\* binary string comparison, as the store's sort uses without a collation
RECURSIVE StrLess(_, _)
StrLess(a, b) ==
  IF a = <<>> THEN b # <<>>
  ELSE IF b = <<>> THEN FALSE
  ELSE IF Head(a) # Head(b) THEN Code(Head(a)) < Code(Head(b))
  ELSE StrLess(Tail(a), Tail(b))

(***************************************************************************)
(* The hero schema: only the fields the router reads.  A hero document has *)
(* its six statistics under powerstats and no top-level statistic.         *)
(***************************************************************************)
Stats == {"intelligence", "strength", "speed", "durability", "power", "combat"}

Hero(id, name, i, s, sp, d, p, c) ==
  [ _id |-> id, name |-> name,
    powerstats |-> [ intelligence |-> i, strength |-> s, speed |-> sp,
                     durability |-> d, power |-> p, combat |-> c ] ]

\* the paths of the hero schema a query condition can name
HeroSchemaPaths ==
  { "name", "powerstats.intelligence", "powerstats.strength", "powerstats.speed",
    "powerstats.durability", "powerstats.power", "powerstats.combat" }

\* the value a document holds at a path, as a sequence: <<>> when the
\* document has no such field
PathValue(h, path) ==
  CASE path = "name" -> <<h.name>>
    [] path = "powerstats.intelligence" -> <<h.powerstats.intelligence>>
    [] path = "powerstats.strength" -> <<h.powerstats.strength>>
    [] path = "powerstats.speed" -> <<h.powerstats.speed>>
    [] path = "powerstats.durability" -> <<h.powerstats.durability>>
    [] path = "powerstats.power" -> <<h.powerstats.power>>
    [] path = "powerstats.combat" -> <<h.powerstats.combat>>
    [] OTHER -> <<>>

(***************************************************************************)
(* The out-of-band import: the stores the program can find itself over.    *)
(* Catalogue holds eleven heroes of pairwise different names in no         *)
(* particular order; a store of n heroes is n consecutive entries of it,   *)
(* taken cyclically from an offset, so that stores of more than eleven     *)
(* heroes hold heroes of equal names (name is not a unique field).         *)
(***************************************************************************)
Catalogue ==
  << Hero(0, <<"I","o","n">>, 2, 1, 0, 2, 1, 0),
     Hero(0, <<"B","a","t">>, 2, 0, 1, 1, 0, 2),
     Hero(0, <<"f","l","a">>, 0, 0, 1, 0, 0, 0),
     Hero(0, <<"A","n","t">>, 1, 1, 1, 1, 1, 1),
     Hero(0, <<"H","e","x">>, 0, 2, 0, 2, 2, 1),
     Hero(0, <<"A","s","c">>, 1, 0, 2, 0, 1, 2),
     Hero(0, <<"F","l","a","s">>, 1, 1, 2, 1, 1, 1),
     Hero(0, <<"C","a","t">>, 0, 1, 1, 0, 2, 2),
     Hero(0, <<"E","g","o">>, 2, 2, 2, 2, 2, 2),
     Hero(0, <<"G","o","g">>, 0, 0, 0, 0, 0, 0),
     Hero(0, <<"D","o","c">>, 2, 1, 1, 0, 0, 1) >>

Imported(n, offset) ==
  [ i \in 1..n |->
      [ Catalogue[((i + offset - 1) % Len(Catalogue)) + 1] EXCEPT !._id = i ] ]

(***************************************************************************)
(* The store's query engine.                                               *)
(***************************************************************************)
Range(s) == { s[i] : i \in 1..Len(s) }

\* every ordering of the keyed documents K, a set of <<key, document>>, by
\* ascending key; documents of equal keys come in any order (the store
\* promises none among equal sort keys)
RECURSIVE Orders(_)
Orders(K) ==
  IF K = {} THEN { <<>> }
  ELSE UNION { { <<m[2]>> \o t : t \in Orders(K \ {m}) } :
               m \in { x \in K : \A y \in K : x[1] <= y[1] } }

Reverse(s) == [ i \in 1..Len(s) |-> s[Len(s) + 1 - i] ]

\* Query.sort({name: dir}) over a set of heroes, dir 1 or -1
SortByName(S, dir) ==
  LET K == { << Cardinality({ g \in S : StrLess(g.name, h.name) }), h >> : h \in S }
  IN  IF dir = 1 THEN Orders(K) ELSE { Reverse(o) : o \in Orders(K) }

\* Query.skip(n).limit(k) over a result sequence, n >= 0
SkipLimit(s, n, k) ==
  SubSeq(s, n + 1, IF n + k < Len(s) THEN n + k ELSE Len(s))

\* req.query.page || 1, the query parameter given as <<>> (absent) or <<p>>
PageOf(page) == IF page = <<>> THEN 1 ELSE page[1]

Skip(page, perPage) == (PageOf(page) - 1) * perPage

(***************************************************************************)
(* Hero.where(st).gte(v) for the six statistics: the conditions of the     *)
(* by-min-stats query, a function from query path to threshold.            *)
(***************************************************************************)
\* req.body[st] || 0
OrZero(body, st) == IF st \in DOMAIN body THEN body[st] ELSE 0

\* the path .where() is given for statistic st
WherePath(st) == st

MinStatsConditions(body) ==
  [ path \in { WherePath(st) : st \in Stats } |->
      OrZero(body, CHOOSE st \in Stats : WherePath(st) = path) ]

\* the query layer's cast of a filter: under strictQuery the conditions on
\* paths that are not in the schema are dropped from the filter
CastFilter(conds, strict) ==
  IF strict
    THEN [ path \in DOMAIN conds \cap HeroSchemaPaths |-> conds[path] ]
    ELSE conds

\* {path: {$gte: v}}: a document without the field does not match
MatchesGte(h, path, v) ==
  PathValue(h, path) # <<>> /\ PathValue(h, path)[1] >= v

Matches(h, conds) == \A path \in DOMAIN conds : MatchesGte(h, path, conds[path])

\* Hero.where(...)....exec(): the matching heroes in the store's own order
FindWhere(coll, conds, strict) ==
  SelectSeq(coll, LAMBDA h : Matches(h, CastFilter(conds, strict)))

(***************************************************************************)
(* Query.sort({name: value}) takes a direction for its value: mquery       *)
(* accepts 1, -1, asc, desc, ascending, descending (compared in lower      *)
(* case) and throws a TypeError for anything else.                         *)
(***************************************************************************)
Ascending == { <<"1">>, <<"a","s","c">>,
               <<"a","s","c","e","n","d","i","n","g">> }
Descending == { <<"-","1">>, <<"d","e","s","c">>,
                <<"d","e","s","c","e","n","d","i","n","g">> }

IsSortValue(value) == toLowerCase(value) \in Ascending \cup Descending

SortValue(value) == IF toLowerCase(value) \in Ascending THEN 1 ELSE -1

(***************************************************************************)
(* Hero.findById(id): a malformed id is a CastError, reported to the       *)
(* callback as err; a well-formed id gives the hero or null, as <<h>> or   *)
(* <<>>.                                                                   *)
(***************************************************************************)
FindById(coll, id) ==
  LET S == { i \in 1..Len(coll) : coll[i]._id = id.oid }
  IN  IF S = {} THEN <<>> ELSE << coll[CHOOSE i \in S : TRUE] >>

(***************************************************************************)
(* Comments.  new Comment({hero: hero._id, text}) is the router's; the     *)
(* identifier and the creation time are the store's, given at save.        *)
(***************************************************************************)
NewCommentNoText(heroId, text) == [ hero |-> heroId, text |-> "" ]

NewComment(heroId, text) == [ hero |-> heroId, text |-> text ]

Saved(c, n) ==
  [ _id |-> n, hero |-> c.hero, text |-> c.text, createdAt |-> n ]

\* the sort key a comment has for a field: null (0, below every time) for a
\* field the document does not have
CommentSortKey(c, field) ==
  CASE field = "createdAt" -> c.createdAt
    [] field = "_id" -> c._id
    [] OTHER -> 0

\* the field Comment.find(...).sort() is given, with '-' for descending
CommentSortField == "timestamps"

\* Comment.find({hero: heroId}).sort('-' + field)
FindComments(coll, heroId, field) ==
  LET S == { c \in Range(coll) : c.hero = heroId }
  IN  Orders({ << 0 - CommentSortKey(c, field), c >> : c \in S })

(***************************************************************************)
(* Requests.  A slot of req holds one request from its arrival to its end: *)
(* pc is where its handler waits ("find", "findById", "save"), "done" once *)
(* the response is sent, "threw" once the handler has ended in an uncaught *)
(* exception with no response sent.  ref holds hero._id once the handler   *)
(* has read it; err is the kind of error the store call reported.          *)
(***************************************************************************)
Slots == 1..MaxReq

NoId == [ valid |-> FALSE, oid |-> 0 ]

Idle ==
  [ ep |-> "none", pc |-> "idle", id |-> NoId, page |-> <<>>, query |-> <<>>,
    stats |-> <<>>, text |-> "", ref |-> <<>>, err |-> "none",
    status |-> 0, body |-> <<>> ]

Free(r) == alive /\ req[r].pc \in {"idle", "done", "threw"}

Waiting(r, ep, pc) == alive /\ req[r].ep = ep /\ req[r].pc = pc

\* res.json(payload)
Json(r, payload) ==
  req' = [ req EXCEPT ![r].pc = "done", ![r].status = 200, ![r].body = payload ]

\* handleError is defined nowhere: calling it is a ReferenceError, thrown out
\* of the callback with no response sent; so is the TypeError of reading
\* hero._id of null.  Nothing catches either: the process dies of it unless
\* its host keeps it up.
Throws(r, kind) ==
  /\ req' = [ req EXCEPT ![r].pc = "threw", ![r].err = kind ]
  /\ alive' \in BOOLEAN

\* the err a paginated find reports: the store is unreachable, or it rejects
\* a negative skip
FindError(ok, skip) ==
  IF ~ok THEN "store" ELSE IF skip < 0 THEN "skip" ELSE "none"

\* the err findById reports: the store is unreachable, or the id does not
\* cast to an ObjectId
FindByIdError(ok, id) ==
  IF ~id.valid THEN "cast" ELSE IF ~ok THEN "store" ELSE "none"

\* ------------------------------------------------------------ GET /heroes
GetHeroes(r, page) ==
  /\ Free(r)
  /\ req' = [ req EXCEPT ![r] = [ Idle EXCEPT !.ep = "getHeroes", !.pc = "find",
                                               !.page = page ] ]
  /\ UNCHANGED <<heroes, comments, strictQuery, alive>>

GetHeroesExec(r, ok) ==
  /\ Waiting(r, "getHeroes", "find")
  /\ LET skip == Skip(req[r].page, DEFAULT_HEROES_PER_PAGE)
         err == FindError(ok, skip)
     IN  IF err = "none"
           THEN /\ \E o \in SortByName(Range(heroes), 1) :
                     Json(r, SkipLimit(o, skip, DEFAULT_HEROES_PER_PAGE))
                /\ UNCHANGED alive
           ELSE Throws(r, err)
  /\ UNCHANGED <<heroes, comments, strictQuery>>

\* -------------------------------------------------------- GET /heroes/:id
GetHero(r, id) ==
  /\ Free(r)
  /\ req' = [ req EXCEPT ![r] = [ Idle EXCEPT !.ep = "getHero", !.pc = "findById",
                                               !.id = id ] ]
  /\ UNCHANGED <<heroes, comments, strictQuery, alive>>

GetHeroExec(r, ok) ==
  /\ Waiting(r, "getHero", "findById")
  /\ LET err == FindByIdError(ok, req[r].id)
     IN  IF err = "none"
           THEN Json(r, FindById(heroes, req[r].id)) /\ UNCHANGED alive
           ELSE Throws(r, err)
  /\ UNCHANGED <<heroes, comments, strictQuery>>

\* ------------------------------------------- POST /search/heroes/by-name
SearchByName(r, query, page) ==
  /\ Free(r)
  /\ IF IsSortValue(query)
       THEN /\ req' = [ req EXCEPT ![r] = [ Idle EXCEPT !.ep = "byName",
                          !.pc = "find", !.query = query, !.page = page ] ]
            /\ UNCHANGED alive
       ELSE \* sort() throws its TypeError before any query is sent
            /\ req' = [ req EXCEPT ![r] = [ Idle EXCEPT !.ep = "byName",
                          !.pc = "threw", !.query = query, !.page = page ] ]
            /\ alive' \in BOOLEAN
  /\ UNCHANGED <<heroes, comments, strictQuery>>

SearchByNameExec(r, ok) ==
  /\ Waiting(r, "byName", "find")
  /\ LET skip == Skip(req[r].page, DEFAULT_HEROES_PER_PAGE)
         err == FindError(ok, skip)
     IN  IF err = "none"
           THEN /\ \E o \in SortByName(Range(heroes), SortValue(req[r].query)) :
                     Json(r, SkipLimit(o, skip, DEFAULT_HEROES_PER_PAGE))
                /\ UNCHANGED alive
           ELSE Throws(r, err)
  /\ UNCHANGED <<heroes, comments, strictQuery>>

\* --------------------------------------- POST /search/heroes/by-min-stats
SearchByMinStats(r, body, page) ==
  /\ Free(r)
  /\ req' = [ req EXCEPT ![r] = [ Idle EXCEPT !.ep = "byMinStats", !.pc = "find",
                                               !.stats = body, !.page = page ] ]
  /\ UNCHANGED <<heroes, comments, strictQuery, alive>>

SearchByMinStatsExec(r, ok) ==
  /\ Waiting(r, "byMinStats", "find")
  /\ LET skip == Skip(req[r].page, DEFAULT_HEROES_PER_PAGE)
         err == FindError(ok, skip)
         found == FindWhere(heroes, MinStatsConditions(req[r].stats), strictQuery)
     IN  IF err = "none"
           THEN Json(r, SkipLimit(found, skip, DEFAULT_HEROES_PER_PAGE))
                /\ UNCHANGED alive
           ELSE Throws(r, err)
  /\ UNCHANGED <<heroes, comments, strictQuery>>

\* ----------------------------------------------- POST /heroes/:id/comments
PostComment(r, id, text) ==
  /\ Free(r)
  /\ req' = [ req EXCEPT ![r] = [ Idle EXCEPT !.ep = "postComment",
                !.pc = "findById", !.id = id, !.text = text ] ]
  /\ UNCHANGED <<heroes, comments, strictQuery, alive>>

\* a callback that takes the comment's hero from the path, not from the hero
\* found
PostCommentFoundById(r, ok) ==
  /\ Waiting(r, "postComment", "findById")
  /\ LET err == FindByIdError(ok, req[r].id)
     IN  IF err # "none" THEN Throws(r, err)
         ELSE /\ req' = [ req EXCEPT ![r].pc = "save", ![r].ref = <<req[r].id.oid>> ]
              /\ UNCHANGED alive
  /\ UNCHANGED <<heroes, comments, strictQuery>>

\* the callback of findById: reads hero._id for the new comment, calls save
PostCommentFound(r, ok) ==
  /\ Waiting(r, "postComment", "findById")
  /\ LET err == FindByIdError(ok, req[r].id)
         hero == FindById(heroes, req[r].id)
     IN  IF err # "none" THEN Throws(r, err)
         ELSE IF hero = <<>> THEN Throws(r, "none")
         ELSE /\ req' = [ req EXCEPT ![r].pc = "save", ![r].ref = <<hero[1]._id>> ]
              /\ UNCHANGED alive
  /\ UNCHANGED <<heroes, comments, strictQuery>>

\* comment.save() settles: the comment is in the store and in the response,
\* or the catch block calls handleError
PostCommentSaved(r, ok) ==
  /\ Waiting(r, "postComment", "save")
  /\ Len(comments) < MaxComments
  /\ IF ok
       THEN LET c == Saved(NewComment(req[r].ref[1], req[r].text),
                           Len(comments) + 1)
            IN  /\ comments' = Append(comments, c)
                /\ Json(r, <<c>>)
                /\ UNCHANGED alive
       ELSE Throws(r, "store") /\ UNCHANGED comments
  /\ UNCHANGED <<heroes, strictQuery>>

\* ------------------------------------------------ GET /heroes/:id/comments
GetComments(r, id, page) ==
  /\ Free(r)
  /\ req' = [ req EXCEPT ![r] = [ Idle EXCEPT !.ep = "getComments",
                !.pc = "findById", !.id = id, !.page = page ] ]
  /\ UNCHANGED <<heroes, comments, strictQuery, alive>>

\* the callback of findById: reads hero._id for the comment query
GetCommentsFound(r, ok) ==
  /\ Waiting(r, "getComments", "findById")
  /\ LET err == FindByIdError(ok, req[r].id)
         hero == FindById(heroes, req[r].id)
     IN  IF err # "none" THEN Throws(r, err)
         ELSE IF hero = <<>> THEN Throws(r, "none")
         ELSE /\ req' = [ req EXCEPT ![r].pc = "find", ![r].ref = <<hero[1]._id>> ]
              /\ UNCHANGED alive
  /\ UNCHANGED <<heroes, comments, strictQuery>>

GetCommentsExec(r, ok) ==
  /\ Waiting(r, "getComments", "find")
  /\ LET skip == Skip(req[r].page, DEFAULT_COMMENTS_PER_PAGE)
         err == FindError(ok, skip)
     IN  IF err = "none"
           THEN /\ \E o \in FindComments(comments, req[r].ref[1], CommentSortField) :
                     Json(r, SkipLimit(o, skip, DEFAULT_COMMENTS_PER_PAGE))
                /\ UNCHANGED alive
           ELSE Throws(r, err)
  /\ UNCHANGED <<heroes, comments, strictQuery>>

(***************************************************************************)
(* The inputs.                                                             *)
(***************************************************************************)
Pages == { <<>> } \cup { <<p>> : p \in 0..MaxPage }

Queries ==
  { <<"f","l","a">>, <<"F","l","a">>, <<"b">>, <<"a","s","c">>,
    <<"d","e","s","c">>, <<"1">>, <<"-","1">> }

Bodies ==
  { <<>> } \cup
  UNION { [ S -> 1..MaxStat ] : S \in { {"speed"}, {"speed", "intelligence"} } }

PathIds ==
  { [ valid |-> TRUE, oid |-> i ] : i \in 1..(MaxStore + 1) } \cup { NoId }

Texts == { "nice", "meh" }

(***************************************************************************)
(* Spec: the server under concurrent requests to its six endpoints, over a *)
(* small store.                                                            *)
(***************************************************************************)
Init ==
  /\ \E n \in 0..MaxStore : heroes = Imported(n, 0)
  /\ comments = <<>>
  /\ strictQuery \in BOOLEAN
  /\ alive = TRUE
  /\ req = [ r \in Slots |-> Idle ]

Next ==
  \E r \in Slots :
    \/ GetHeroes(r, <<>>)
    \/ \E ok \in BOOLEAN : GetHeroesExec(r, ok)
    \/ \E id \in PathIds : GetHero(r, id)
    \/ \E ok \in BOOLEAN : GetHeroExec(r, ok)
    \/ \E q \in { <<"a","s","c">>, <<"f","l","a">> } : SearchByName(r, q, <<>>)
    \/ \E ok \in BOOLEAN : SearchByNameExec(r, ok)
    \/ SearchByMinStats(r, <<>>, <<>>)
    \/ \E ok \in BOOLEAN : SearchByMinStatsExec(r, ok)
    \/ \E id \in PathIds, text \in Texts : PostComment(r, id, text)
    \/ \E ok \in BOOLEAN : PostCommentFound(r, ok)
    \/ \E ok \in BOOLEAN : PostCommentSaved(r, ok)
    \/ \E id \in PathIds : GetComments(r, id, <<>>)
    \/ \E ok \in BOOLEAN : GetCommentsFound(r, ok)
    \/ \E ok \in BOOLEAN : GetCommentsExec(r, ok)

Spec == Init /\ [][Next]_vars

(***************************************************************************)
(* QuerySpec: one request to one of the three hero listings, over the      *)
(* larger stores, which span more than one page.                           *)
(***************************************************************************)
QueryInit ==
  /\ \E n \in 0..MaxListed, offset \in 0..(Len(Catalogue) - 1) :
       heroes = Imported(n, offset)
  /\ comments = <<>>
  /\ strictQuery \in BOOLEAN
  /\ alive = TRUE
  /\ req = [ r \in Slots |-> Idle ]

Fresh(r) == req[r].pc = "idle"

QueryNext ==
  \/ Fresh(1) /\ \E page \in Pages : GetHeroes(1, page)
  \/ \E ok \in BOOLEAN : GetHeroesExec(1, ok)
  \/ Fresh(1) /\ \E q \in Queries, page \in Pages : SearchByName(1, q, page)
  \/ \E ok \in BOOLEAN : SearchByNameExec(1, ok)
  \/ Fresh(1) /\ \E body \in Bodies, page \in Pages : SearchByMinStats(1, body, page)
  \/ \E ok \in BOOLEAN : SearchByMinStatsExec(1, ok)

QuerySpec == QueryInit /\ [][QueryNext]_vars

(***************************************************************************)
(* PagesSpec: one GET /heroes per slot, over the larger stores: the pages  *)
(* of one listing are the responses to separate requests.                  *)
(***************************************************************************)
PagesNext ==
  \E r \in Slots :
    \/ Fresh(r) /\ \E page \in Pages : GetHeroes(r, page)
    \/ \E ok \in BOOLEAN : GetHeroesExec(r, ok)

PagesSpec == QueryInit /\ [][PagesNext]_vars

(***************************************************************************)
(* The claims.                                                             *)
(***************************************************************************)
Done(r) == req[r].pc = "done"

Ended(r) == req[r].pc \in {"done", "threw"}

\* the heroes a request got: those of its response, none without a response
Results(r) == IF Done(r) THEN Range(req[r].body) ELSE {}

Missing(id) == id.valid /\ FindById(heroes, id) = <<>>

startsWith(s, p) == Len(p) <= Len(s) /\ SubSeq(s, 1, Len(p)) = p

NamePrefixed(h, q) == startsWith(toLowerCase(h.name), toLowerCase(q))

AtLeast(h, body) == \A st \in Stats : h.powerstats[st] >= OrZero(body, st)

NameSorted(s) == \A i \in 1..(Len(s) - 1) : ~StrLess(s[i + 1].name, s[i].name)

\* C1: POST /search/heroes/by-name gives the heroes whose lower-cased name
\* starts with the lower-cased query, and only them: every hero a request got
\* has the prefix, and where the heroes with the prefix fit on the first page,
\* a request for the first page that no store error ended got them all.
C1_ByNameIsPrefixSearch ==
  \A r \in Slots :
    (req[r].ep = "byName" /\ Ended(r) /\ req[r].err = "none") =>
      LET prefixed == { h \in Range(heroes) : NamePrefixed(h, req[r].query) }
      IN  /\ Results(r) \subseteq prefixed
          /\ (PageOf(req[r].page) = 1
                /\ Cardinality(prefixed) <= DEFAULT_HEROES_PER_PAGE)
             => prefixed \subseteq Results(r)

\* C2: POST /search/heroes/by-min-stats gives the heroes whose six powerstats
\* are each at least the body's value (0 for an absent field), and only them:
\* every hero in a response is one, and where they fit on the first page the
\* first page holds them all.
C2_MinStatsIsThreshold ==
  \A r \in Slots :
    (req[r].ep = "byMinStats" /\ Done(r)) =>
      LET atLeast == { h \in Range(heroes) : AtLeast(h, req[r].stats) }
      IN  /\ Results(r) \subseteq atLeast
          /\ (PageOf(req[r].page) = 1
                /\ Cardinality(atLeast) <= DEFAULT_HEROES_PER_PAGE)
             => atLeast \subseteq Results(r)

\* C3: POST /heroes/:id/comments with a well-formed id of no hero ends, the
\* store answering, in a 404 response, and the step that ends it leaves the
\* comment collection as it was.
C3_CommentOnMissingHeroIs404 ==
  [][ \A r \in Slots :
        ( /\ req[r].ep = "postComment" /\ req[r].pc = "findById"
          /\ Missing(req[r].id)
          /\ req'[r].pc # "findById" /\ req'[r].err # "store" )
        => (req'[r].status = 404 /\ comments' = comments) ]_vars

\* C4: the responses of GET /heroes for pages >= 1 hold at most 10 heroes,
\* are empty past the last page, share no hero between two different pages,
\* and pages 1 and 2 of a store of at most 20 heroes, one after the other,
\* are the whole hero collection in ascending order of name.
C4_PagesPartitionSortedHeroes ==
  \A r1 \in Slots :
    (req[r1].ep = "getHeroes" /\ Done(r1) /\ PageOf(req[r1].page) >= 1) =>
      /\ Len(req[r1].body) <= DEFAULT_HEROES_PER_PAGE
      /\ Skip(req[r1].page, DEFAULT_HEROES_PER_PAGE) >= Len(heroes)
           => req[r1].body = <<>>
      /\ \A r2 \in Slots :
           ( /\ req[r2].ep = "getHeroes" /\ Done(r2)
             /\ PageOf(req[r2].page) > PageOf(req[r1].page) ) =>
             /\ Range(req[r1].body) \cap Range(req[r2].body) = {}
             /\ ( /\ PageOf(req[r1].page) = 1 /\ PageOf(req[r2].page) = 2
                  /\ Len(heroes) <= 2 * DEFAULT_HEROES_PER_PAGE ) =>
                  LET all == req[r1].body \o req[r2].body
                  IN  /\ Len(all) = Len(heroes)
                      /\ Range(all) = Range(heroes)
                      /\ NameSorted(all)

\* what does hold of GET /heroes: its pages partition the sorted collection
\* in every store whose hero names differ pairwise
NamesDiffer ==
  \A i, j \in 1..Len(heroes) : heroes[i].name = heroes[j].name => i = j

PagesPartitionWhereNamesDiffer == NamesDiffer => C4_PagesPartitionSortedHeroes

\* C5: a response of GET /heroes/:id/comments holds at most 3 comments, all
\* of that hero, none created later than the one before it.
C5_CommentsNewestFirst ==
  \A r \in Slots :
    (req[r].ep = "getComments" /\ Done(r)) =>
      /\ Len(req[r].body) <= DEFAULT_COMMENTS_PER_PAGE
      /\ \A i \in 1..Len(req[r].body) : req[r].body[i].hero = req[r].id.oid
      /\ \A i \in 1..(Len(req[r].body) - 1) :
           req[r].body[i].createdAt >= req[r].body[i + 1].createdAt

\* C6: GET /heroes/:id and GET /heroes/:id/comments with a well-formed id of
\* no hero end, the store answering, in a 404 response.
C6_MissingHeroIs404 ==
  \A r \in Slots :
    ( /\ req[r].ep \in {"getHero", "getComments"} /\ Ended(r)
      /\ Missing(req[r].id) /\ req[r].err # "store" )
    => req[r].status = 404

\* C7: GET /heroes/:id with a malformed id ends in a 4xx response: not in a
\* 5xx, not in a 200, not in an exception that leaves the handler.
C7_MalformedIdIs4xx ==
  \A r \in Slots :
    (req[r].ep = "getHero" /\ Ended(r) /\ ~req[r].id.valid)
    => (Done(r) /\ req[r].status \in 400..499)

\* C8: a request one of whose store operations failed ends in a response of
\* status 500, the error caught in the handler.
C8_StoreErrorIs500 ==
  \A r \in Slots :
    (Ended(r) /\ req[r].err = "store") => (Done(r) /\ req[r].status = 500)

\* C9: under every interleaving of requests every comment in the store
\* references a hero in the store, and a handler is about to save a comment
\* only for a hero its lookup found.
C9_NoOrphanComment ==
  /\ \A i \in 1..Len(comments) :
       \E j \in 1..Len(heroes) : heroes[j]._id = comments[i].hero
  /\ \A r \in Slots :
       (req[r].ep = "postComment" /\ req[r].pc = "save") =>
         /\ req[r].ref = <<req[r].id.oid>>
         /\ FindById(heroes, req[r].id) # <<>>

\* a comment is in the store, a second comment is about to be saved, and a
\* comment on a missing hero has just been refused
C9_Witness ==
  \E r1, r2 \in Slots :
    /\ comments # <<>>
    /\ req[r1].ep = "postComment" /\ req[r1].pc = "save"
    /\ req[r2].ep = "postComment" /\ req[r2].pc = "threw"
    /\ Missing(req[r2].id) /\ req[r2].err = "none"

====
